---- MODULE Spec2Model ----
(***************************************************************************)
(* Model of rlclientlib/factory_resolver.cc: the nifty-counter guard       *)
(* (factory_initializer) that owns the four process-wide factory           *)
(* registries, the default factory set, and the built-in factory bodies.   *)
(***************************************************************************)
EXTENDS Integers, Sequences, FiniteSets, TLC

\* ------------------------------------------------------------------ bounds
MaxGuards == 3
MaxObjects == 2
NThreads == 2

Guards == 1..MaxGuards
Threads == 1..NThreads

\* --------------------------------------------------------------- constants
\* The four registries, in the order of their declarations.
Registries ==
  {"data_transport_factory", "model_factory", "sender_factory", "trace_logger_factory"}

\* Keys of the built-in registrations (value::... in the source).
VW == "VW"
NULL_TRACE_LOGGER == "NULL_TRACE_LOGGER"
CONSOLE_TRACE_LOGGER == "CONSOLE_TRACE_LOGGER"
OBSERVATION_FILE_SENDER == "OBSERVATION_FILE_SENDER"
INTERACTION_FILE_SENDER == "INTERACTION_FILE_SENDER"

\* Configuration option names read by the file sender factories (name::...).
OBSERVATION_FILE_NAME == "observation.file.name"
INTERACTION_FILE_NAME == "interaction.file.name"

\* error_code::success, and the registry's own lookup failure.
success == "success"
NotFound == "NotFound"
ConstructionFailed == "ConstructionFailed"

\* What the external platform hook may register: (registry, key, factory).
HookRegs ==
  { <<"data_transport_factory", "PLATFORM_TRANSPORT", "platform_transport_create">>,
    <<"sender_factory", "PLATFORM_SENDER", "platform_sender_create">> }

HookOrder ==
  << <<"data_transport_factory", "PLATFORM_TRANSPORT", "platform_transport_create">>,
     <<"sender_factory", "PLATFORM_SENDER", "platform_sender_create">> >>

PlatformFns == {"platform_transport_create", "platform_sender_create"}

\* The built-in registrations: (registry, key, factory).
DefaultRegs ==
  { <<"model_factory", VW, "vw_model_create">>,
    <<"trace_logger_factory", NULL_TRACE_LOGGER, "null_tracer_create">>,
    <<"trace_logger_factory", CONSOLE_TRACE_LOGGER, "console_tracer_create">>,
    <<"sender_factory", OBSERVATION_FILE_SENDER, "observation_file_sender">>,
    <<"sender_factory", INTERACTION_FILE_SENDER, "interaction_file_sender">> }

\* The built-in registrations the environment may make fail.
FailRegs == { <<"fails", e[1], e[2]>> : e \in DefaultRegs }

BuiltinFns ==
  {"vw_model_create", "null_tracer_create", "console_tracer_create",
   "observation_file_sender", "interaction_file_sender"}

\* Inputs of a create call.
NoValue == "<unset>"
Configs == [{OBSERVATION_FILE_NAME, INTERACTION_FILE_NAME} -> {NoValue, "custom.data"}]
TraceLoggers == {"nullptr", "tracer"}
ErrorCallbacks == {"nullptr", "error_cb"}
Statuses == {"nullptr", "unset"}
Policies == {"overwrite", "reject"}

\* ------------------------------------------------------------------- state
VARIABLES
  init_guard,     \* static int init_guard
  constructed,    \* per registry: does its buffer hold a constructed object
  creators,       \* per registry: the registered (key, factory) pairs
  log,            \* construction/destruction events of the latest guard operation
  initRuns,       \* how often the initialising branch of the constructor ran
  teardownRuns,   \* how often the tearing-down branch of the destructor ran
  hookCalls,      \* how often register_azure_factories was invoked
  hookSaw,        \* the constructed flags the hook found on its latest call
  initOrder,      \* the registries in the order the latest initialisation constructed them
  teardownOrder,  \* the registries in the order the latest teardown destroyed them
  env,            \* what the environment did during the latest default population
  dupHits,        \* how often register_type met a key that was already registered
  regErrors,      \* how many registrations failed in the latest default population
  reported,       \* how many of these failures the guard's code has passed on
  guards,         \* per guard instance: "unborn", "live" or "dead"
  lastGuardOp,    \* the latest constructor/destructor call and init_guard before it
  upCross,        \* how often init_guard went from 0 to 1
  downCross,      \* how often init_guard went from 1 to 0
  emptied,        \* how often the set of live guard instances became empty
  policy,         \* the registry's duplicate-key policy
  heap,           \* number of objects allocated by factories so far
  last_call,      \* the latest create call: its arguments and its results
  seen,           \* the constructed flags read by code outside the guard
  pc,             \* per thread: the statement it executes next
  tmp             \* per thread: the value of init_guard it has read

vars ==
  <<init_guard, constructed, creators, log, initRuns, teardownRuns, hookCalls, hookSaw,
    initOrder, teardownOrder, env, dupHits, regErrors, reported, guards, lastGuardOp,
    upCross, downCross, emptied, policy, heap, last_call, seen, pc, tmp>>

\* The part of the state the guard's code reads and writes, as one record.
Cur ==
  [init_guard |-> init_guard, constructed |-> constructed, creators |-> creators,
   log |-> log, initRuns |-> initRuns, teardownRuns |-> teardownRuns,
   hookCalls |-> hookCalls, hookSaw |-> hookSaw, initOrder |-> initOrder,
   teardownOrder |-> teardownOrder, env |-> env, dupHits |-> dupHits,
   regErrors |-> regErrors, reported |-> reported]

\* ----------------------------------------------------- the factory registry
KeysOf(entries) == { e[1] : e \in entries }

\* object_factory::register_type(key, fn): stores fn under key. On a key that is
\* already present the registry either overwrites or keeps the old entry and
\* fails, by its fixed policy.
register_type(s, r, key, fn) ==
  IF key \in KeysOf(s.creators[r])
  THEN IF policy = "overwrite"
       THEN [s EXCEPT !.creators[r] = { e \in @ : e[1] # key } \cup {<<key, fn>>},
                      !.dupHits = @ + 1]
       ELSE [s EXCEPT !.dupHits = @ + 1, !.regErrors = @ + 1]
  ELSE [s EXCEPT !.creators[r] = @ \cup {<<key, fn>>}]

\* A built-in registration, as a statement of register_default_factories: the
\* call fails when the environment h says so, and whatever register_type
\* returns is dropped.
RegisterBuiltin(s, h, r, key, fn) ==
  IF <<"fails", r, key>> \in h
  THEN [s EXCEPT !.regErrors = @ + 1]
  ELSE register_type(s, r, key, fn)

\* new ( &registry ) registry_t(): an empty registry is constructed in the buffer.
NewRegistry(s, r) ==
  [s EXCEPT !.constructed[r] = TRUE, !.creators[r] = {},
            !.log = Append(@, <<"new", r>>), !.initOrder = Append(@, r)]

\* ( &registry )->~registry_t(): the registry and every factory value it holds
\* are released.
DeleteRegistry(s, r) ==
  [s EXCEPT !.constructed[r] = FALSE, !.creators[r] = {},
            !.log = Append(@, <<"delete", r>>), !.teardownOrder = Append(@, r)]

\* ------------------------------------------------------ default factory set
RECURSIVE RegisterAll(_, _, _)
RegisterAll(s, regs, h) ==
  IF regs = <<>> THEN s
  ELSE LET e == Head(regs)
           s1 == IF e \in h THEN register_type(s, e[1], e[2], e[3]) ELSE s
       IN RegisterAll(s1, Tail(regs), h)

\* register_azure_factories(): the external platform hook. It finds the registries
\* as they are and registers the platform factories h.
register_azure_factories(s, h) ==
  RegisterAll([s EXCEPT !.hookCalls = @ + 1, !.hookSaw = s.constructed,
                        !.log = Append(@, <<"call", "register_azure_factories">>)],
              HookOrder, h)

\* Variant: the interaction sender is registered under the observation key.
register_default_factories_same_key(s, h) ==
  LET s0 == [s EXCEPT !.log = Append(@, <<"call", "register_default_factories">>),
                      !.env = h, !.regErrors = 0, !.reported = 0]
      s1 == register_azure_factories(s0, h)
      s2 == RegisterBuiltin(s1, h, "model_factory", VW, "vw_model_create")
      s3 == RegisterBuiltin(s2, h, "trace_logger_factory", NULL_TRACE_LOGGER,
                            "null_tracer_create")
      s4 == RegisterBuiltin(s3, h, "trace_logger_factory", CONSOLE_TRACE_LOGGER,
                            "console_tracer_create")
      s5 == RegisterBuiltin(s4, h, "sender_factory", OBSERVATION_FILE_SENDER,
                            "observation_file_sender")
      s6 == RegisterBuiltin(s5, h, "sender_factory", OBSERVATION_FILE_SENDER,
                            "interaction_file_sender")
  IN s6

\* Variant: the population stops at the first registration that fails.
register_default_factories_stop_at_failure(s, h) ==
  LET s0 == [s EXCEPT !.log = Append(@, <<"call", "register_default_factories">>),
                      !.env = h, !.regErrors = 0, !.reported = 0]
      s1 == register_azure_factories(s0, h)
      Next1(sx, r, key, fn) ==
        IF sx.regErrors > s1.regErrors THEN sx ELSE RegisterBuiltin(sx, h, r, key, fn)
      s2 == Next1(s1, "model_factory", VW, "vw_model_create")
      s3 == Next1(s2, "trace_logger_factory", NULL_TRACE_LOGGER, "null_tracer_create")
      s4 == Next1(s3, "trace_logger_factory", CONSOLE_TRACE_LOGGER, "console_tracer_create")
      s5 == Next1(s4, "sender_factory", OBSERVATION_FILE_SENDER, "observation_file_sender")
      s6 == Next1(s5, "sender_factory", INTERACTION_FILE_SENDER, "interaction_file_sender")
  IN s6

\* Variant: the platform hook is invoked a second time after the built-in
\* registrations.
register_default_factories_hook_twice(s, h) ==
  LET s0 == [s EXCEPT !.log = Append(@, <<"call", "register_default_factories">>),
                      !.env = h, !.regErrors = 0, !.reported = 0]
      s1 == register_azure_factories(s0, h)
      s2 == RegisterBuiltin(s1, h, "model_factory", VW, "vw_model_create")
      s3 == RegisterBuiltin(s2, h, "trace_logger_factory", NULL_TRACE_LOGGER,
                            "null_tracer_create")
      s4 == RegisterBuiltin(s3, h, "trace_logger_factory", CONSOLE_TRACE_LOGGER,
                            "console_tracer_create")
      s5 == RegisterBuiltin(s4, h, "sender_factory", OBSERVATION_FILE_SENDER,
                            "observation_file_sender")
      s6 == RegisterBuiltin(s5, h, "sender_factory", INTERACTION_FILE_SENDER,
                            "interaction_file_sender")
  IN register_azure_factories(s6, {})

\* Variant: the VW model factory is registered twice.
register_default_factories_vw_twice(s, h) ==
  LET s0 == [s EXCEPT !.log = Append(@, <<"call", "register_default_factories">>),
                      !.env = h, !.regErrors = 0, !.reported = 0]
      s1 == register_azure_factories(s0, h)
      s2 == RegisterBuiltin(s1, h, "model_factory", VW, "vw_model_create")
      s3 == RegisterBuiltin(s2, h, "trace_logger_factory", NULL_TRACE_LOGGER,
                            "null_tracer_create")
      s4 == RegisterBuiltin(s3, h, "trace_logger_factory", CONSOLE_TRACE_LOGGER,
                            "console_tracer_create")
      s5 == RegisterBuiltin(s4, h, "sender_factory", OBSERVATION_FILE_SENDER,
                            "observation_file_sender")
      s6 == RegisterBuiltin(s5, h, "sender_factory", INTERACTION_FILE_SENDER,
                            "interaction_file_sender")
  IN RegisterBuiltin(s6, h, "model_factory", VW, "vw_model_create")

register_default_factories(s, h) ==
  LET s0 == [s EXCEPT !.log = Append(@, <<"call", "register_default_factories">>),
                      !.env = h, !.regErrors = 0, !.reported = 0]
      s1 == register_azure_factories(s0, h)
      s2 == RegisterBuiltin(s1, h, "model_factory", VW, "vw_model_create")
      s3 == RegisterBuiltin(s2, h, "trace_logger_factory", NULL_TRACE_LOGGER,
                            "null_tracer_create")
      s4 == RegisterBuiltin(s3, h, "trace_logger_factory", CONSOLE_TRACE_LOGGER,
                            "console_tracer_create")
      s5 == RegisterBuiltin(s4, h, "sender_factory", OBSERVATION_FILE_SENDER,
                            "observation_file_sender")
      s6 == RegisterBuiltin(s5, h, "sender_factory", INTERACTION_FILE_SENDER,
                            "interaction_file_sender")
  IN s6

\* ---------------------------------------------------------- lifecycle guard
\* Variant: the defaults are registered before the last registry is constructed.
InitRegistries_early_register(s, h) ==
  LET s1 == NewRegistry([s EXCEPT !.initOrder = <<>>], "data_transport_factory")
      s2 == NewRegistry(s1, "model_factory")
      s3 == NewRegistry(s2, "sender_factory")
      s4 == register_default_factories(s3, h)
      s5 == NewRegistry(s4, "trace_logger_factory")
  IN [s5 EXCEPT !.initRuns = @ + 1]

\* The body guarded by init_guard++ == 0.
InitRegistries(s, h) ==
  LET s1 == NewRegistry([s EXCEPT !.initOrder = <<>>], "data_transport_factory")
      s2 == NewRegistry(s1, "model_factory")
      s3 == NewRegistry(s2, "sender_factory")
      s4 == NewRegistry(s3, "trace_logger_factory")
      s5 == register_default_factories(s4, h)
  IN [s5 EXCEPT !.initRuns = @ + 1]

\* Variant: the registries are initialised on the first 0 -> 1 crossing only.
factory_initializer_ctor_once(s, h) ==
  LET s0 == [s EXCEPT !.init_guard = @ + 1, !.log = <<>>]
  IN IF s.init_guard = 0 /\ s.initRuns = 0 THEN InitRegistries(s0, h) ELSE s0

\* Variant: a later guard registers the defaults again.
factory_initializer_ctor_repopulate(s, h) ==
  LET s0 == [s EXCEPT !.init_guard = @ + 1, !.log = <<>>]
  IN IF s.init_guard = 0 THEN InitRegistries(s0, h)
     ELSE [register_default_factories(s0, h) EXCEPT !.log = <<>>]

\* Variant: the counter is compared after it is incremented (++init_guard == 0).
factory_initializer_ctor_preinc(s, h) ==
  LET s0 == [s EXCEPT !.init_guard = @ + 1, !.log = <<>>]
  IN IF s0.init_guard = 0 THEN InitRegistries(s0, h) ELSE s0

factory_initializer_ctor(s, h) ==
  LET s0 == [s EXCEPT !.init_guard = @ + 1, !.log = <<>>]
  IN IF s.init_guard = 0 THEN InitRegistries(s0, h) ELSE s0

\* Variant: the registries are destroyed last-constructed first.
TeardownRegistries_reversed(s) ==
  LET s1 == DeleteRegistry([s EXCEPT !.teardownOrder = <<>>], "trace_logger_factory")
      s2 == DeleteRegistry(s1, "sender_factory")
      s3 == DeleteRegistry(s2, "model_factory")
      s4 == DeleteRegistry(s3, "data_transport_factory")
  IN [s4 EXCEPT !.teardownRuns = @ + 1]

\* The body guarded by --init_guard == 0.
TeardownRegistries(s) ==
  LET s1 == DeleteRegistry([s EXCEPT !.teardownOrder = <<>>], "data_transport_factory")
      s2 == DeleteRegistry(s1, "model_factory")
      s3 == DeleteRegistry(s2, "sender_factory")
      s4 == DeleteRegistry(s3, "trace_logger_factory")
  IN [s4 EXCEPT !.teardownRuns = @ + 1]

\* Variant: the counter is compared before it is decremented (init_guard-- == 0).
factory_initializer_dtor_postdec(s) ==
  LET s0 == [s EXCEPT !.init_guard = @ - 1, !.log = <<>>]
  IN IF s.init_guard = 0 THEN TeardownRegistries(s0) ELSE s0

\* Variant: every destruction tears the registries down.
factory_initializer_dtor_unguarded(s) ==
  TeardownRegistries([s EXCEPT !.init_guard = @ - 1, !.log = <<>>])

factory_initializer_dtor(s) ==
  LET s0 == [s EXCEPT !.init_guard = @ - 1, !.log = <<>>]
  IN IF s0.init_guard = 0 THEN TeardownRegistries(s0) ELSE s0

\* --------------------------------------------------------- built-in factories
\* A create call's result: the result code, the output slot and the status.
Unset ==
  [kind |-> "unset", type |-> "-", file_name |-> "-", error_cb |-> "-",
   trace_logger |-> "-", id |-> 0]

NullPtr ==
  [kind |-> "nullptr", type |-> "-", file_name |-> "-", error_cb |-> "-",
   trace_logger |-> "-", id |-> 0]

\* configuration::get(name, default)
get(cfg, name, defval) == IF cfg[name] = NoValue THEN defval ELSE cfg[name]

\* new logger::file::file_logger(file_name, trace_logger)
file_sender_create(cfg, file_name, error_cb, trace_logger, status, id) ==
  [rc |-> success,
   retval |-> [kind |-> "object", type |-> "file_logger", file_name |-> file_name,
               error_cb |-> "-", trace_logger |-> trace_logger, id |-> id],
   status |-> status]

observation_file_sender(cfg, error_cb, trace_logger, status, id) ==
  file_sender_create(cfg, get(cfg, OBSERVATION_FILE_NAME, "observation.fb.data"),
                     error_cb, trace_logger, status, id)

\* Variant: the interaction sender reads the observation file name option.
interaction_file_sender_wrong_option(cfg, error_cb, trace_logger, status, id) ==
  file_sender_create(cfg, get(cfg, OBSERVATION_FILE_NAME, "interaction.fb.data"),
                     error_cb, trace_logger, status, id)

interaction_file_sender(cfg, error_cb, trace_logger, status, id) ==
  file_sender_create(cfg, get(cfg, INTERACTION_FILE_NAME, "interaction.fb.data"),
                     error_cb, trace_logger, status, id)

\* Variant: the model is created but never stored in the output slot.
vw_model_create_no_store(cfg, trace_logger, status, id) ==
  [rc |-> success, retval |-> Unset, status |-> status]

\* new m::vw_model(trace_logger)
vw_model_create(cfg, trace_logger, status, id) ==
  [rc |-> success,
   retval |-> [kind |-> "object", type |-> "vw_model", file_name |-> "-",
               error_cb |-> "-", trace_logger |-> trace_logger, id |-> id],
   status |-> status]

\* Variant: the output slot is left as the caller passed it.
null_tracer_create_no_store(cfg, trace_logger, status, id) ==
  [rc |-> success, retval |-> Unset, status |-> status]

null_tracer_create(cfg, trace_logger, status, id) ==
  [rc |-> success, retval |-> NullPtr, status |-> status]

\* new console_tracer()
console_tracer_create(cfg, trace_logger, status, id) ==
  [rc |-> success,
   retval |-> [kind |-> "object", type |-> "console_tracer", file_name |-> "-",
               error_cb |-> "-", trace_logger |-> "-", id |-> id],
   status |-> status]

\* A factory registered by the platform hook: it honours the creation protocol,
\* succeeding with a new object or failing with the status set.
platform_create(fn, ok, status, id) ==
  IF ok
  THEN [rc |-> success,
        retval |-> [kind |-> "object", type |-> fn, file_name |-> "-",
                    error_cb |-> "-", trace_logger |-> "-", id |-> id],
        status |-> status]
  ELSE [rc |-> ConstructionFailed, retval |-> Unset,
        status |-> IF status = "nullptr" THEN "nullptr" ELSE ConstructionFailed]

Invoke(fn, cfg, error_cb, trace_logger, status, id, ok) ==
  CASE fn = "vw_model_create" -> vw_model_create(cfg, trace_logger, status, id)
    [] fn = "null_tracer_create" -> null_tracer_create(cfg, trace_logger, status, id)
    [] fn = "console_tracer_create" -> console_tracer_create(cfg, trace_logger, status, id)
    [] fn = "observation_file_sender" ->
         observation_file_sender(cfg, error_cb, trace_logger, status, id)
    [] fn = "interaction_file_sender" ->
         interaction_file_sender(cfg, error_cb, trace_logger, status, id)
    [] OTHER -> platform_create(fn, ok, status, id)

\* object_factory::create(key, ...): looks the key up and dispatches to the stored
\* factory, forwarding its result; an absent key yields NotFound, the status
\* set and the output slot left alone.
create(entries, key, cfg, error_cb, trace_logger, status, id, ok) ==
  IF key \in KeysOf(entries)
  THEN LET fn == (CHOOSE e \in entries : e[1] = key)[2]
       IN [fn |-> fn] @@ Invoke(fn, cfg, error_cb, trace_logger, status, id, ok)
  ELSE [fn |-> "-", rc |-> NotFound, retval |-> Unset,
        status |-> IF status = "nullptr" THEN "nullptr" ELSE NotFound]

\* ------------------------------------------------------------------ actions
NoCall ==
  [registry |-> "-", key |-> "-", cfg |-> [n \in {OBSERVATION_FILE_NAME, INTERACTION_FILE_NAME} |-> NoValue],
   error_cb |-> "-", trace_logger |-> "-", status_in |-> "-", fn |-> "-",
   rc |-> "-", retval |-> Unset, status |-> "-", heap_before |-> 0]

Init ==
  /\ init_guard = 0
  /\ constructed = [r \in Registries |-> FALSE]
  /\ creators = [r \in Registries |-> {}]
  /\ log = <<>>
  /\ initRuns = 0
  /\ teardownRuns = 0
  /\ hookCalls = 0
  /\ hookSaw = [r \in Registries |-> FALSE]
  /\ initOrder = <<>>
  /\ teardownOrder = <<>>
  /\ env = {}
  /\ dupHits = 0
  /\ regErrors = 0
  /\ reported = 0
  /\ guards = [g \in Guards |-> "unborn"]
  /\ lastGuardOp = [kind |-> "none", before |-> 0]
  /\ upCross = 0
  /\ downCross = 0
  /\ emptied = 0
  /\ policy \in Policies
  /\ heap = 0
  /\ last_call = NoCall
  /\ seen = [r \in Registries |-> FALSE]
  /\ pc = [t \in Threads |-> [at |-> "idle", i |-> 0]]
  /\ tmp = [t \in Threads |-> 0]

\* The guard's code has run from Cur to s.
Commit(s) ==
  /\ init_guard' = s.init_guard
  /\ constructed' = s.constructed
  /\ creators' = s.creators
  /\ log' = s.log
  /\ initRuns' = s.initRuns
  /\ teardownRuns' = s.teardownRuns
  /\ hookCalls' = s.hookCalls
  /\ hookSaw' = s.hookSaw
  /\ initOrder' = s.initOrder
  /\ teardownOrder' = s.teardownOrder
  /\ env' = s.env
  /\ dupHits' = s.dupHits
  /\ regErrors' = s.regErrors
  /\ reported' = s.reported
  /\ upCross' = IF init_guard = 0 /\ s.init_guard = 1 THEN upCross + 1 ELSE upCross
  /\ downCross' = IF init_guard = 1 /\ s.init_guard = 0 THEN downCross + 1 ELSE downCross

Live == { g \in Guards : guards[g] = "live" }

\* A guard instance is constructed: factory_initializer::factory_initializer().
Construct(g) ==
  /\ guards[g] = "unborn"
  /\ \E h \in SUBSET HookRegs : Commit(factory_initializer_ctor(Cur, h))
  /\ guards' = [guards EXCEPT ![g] = "live"]
  /\ lastGuardOp' = [kind |-> "ctor", before |-> init_guard]
  /\ UNCHANGED <<emptied, policy, heap, last_call, seen, pc, tmp>>

\* A guard instance is destroyed: factory_initializer::~factory_initializer().
Destroy(g) ==
  /\ guards[g] = "live"
  /\ Commit(factory_initializer_dtor(Cur))
  /\ guards' = [guards EXCEPT ![g] = "dead"]
  /\ lastGuardOp' = [kind |-> "dtor", before |-> init_guard]
  /\ emptied' = IF Live = {g} THEN emptied + 1 ELSE emptied
  /\ UNCHANGED <<policy, heap, last_call, seen, pc, tmp>>

\* Code holding a live guard creates an object through registry r.
Create(r, key) ==
  /\ Live # {}
  /\ heap < MaxObjects
  /\ \E cfg \in Configs, trace_logger \in TraceLoggers, status \in Statuses,
        ok \in (IF key \in {"PLATFORM_TRANSPORT", "PLATFORM_SENDER"} THEN BOOLEAN ELSE {TRUE}),
        error_cb \in (IF r = "sender_factory" THEN ErrorCallbacks ELSE {"-"}) :
       LET res == create(creators[r], key, cfg, error_cb, trace_logger, status, heap + 1, ok)
       IN /\ last_call' =
               [registry |-> r, key |-> key, cfg |-> cfg, error_cb |-> error_cb,
                trace_logger |-> trace_logger, status_in |-> status, fn |-> res.fn,
                rc |-> res.rc, retval |-> res.retval, status |-> res.status,
                heap_before |-> heap]
          /\ heap' = IF res.retval.kind = "object" THEN heap + 1 ELSE heap
  /\ UNCHANGED <<init_guard, constructed, creators, log, initRuns, teardownRuns, hookCalls,
                 hookSaw, initOrder, teardownOrder, env, dupHits, regErrors, reported, guards, lastGuardOp, upCross,
                 downCross, emptied, policy, seen, pc, tmp>>

\* Code outside the guard's constructor and destructor looks at the registries.
Observe ==
  /\ seen' = constructed
  /\ UNCHANGED <<init_guard, constructed, creators, log, initRuns, teardownRuns, hookCalls,
                 hookSaw, initOrder, teardownOrder, env, dupHits, regErrors, reported, guards, lastGuardOp, upCross,
                 downCross, emptied, policy, heap, last_call, pc, tmp>>

\* The keys a caller asks registry r for: its built-in keys, the platform key
\* and a key nobody registers.
KeysFor(r) ==
  CASE r = "data_transport_factory" -> {"PLATFORM_TRANSPORT", "no-such-key"}
    [] r = "model_factory" -> {VW, "no-such-key"}
    [] r = "sender_factory" ->
         {OBSERVATION_FILE_SENDER, INTERACTION_FILE_SENDER, "PLATFORM_SENDER", "no-such-key"}
    [] OTHER -> {NULL_TRACE_LOGGER, CONSOLE_TRACE_LOGGER, "no-such-key"}

\* Guard instances of any number of translation units come and go.
Next ==
  \/ \E g \in Guards : Construct(g)
  \/ \E g \in Guards : Destroy(g)
  \/ Observe

Spec == Init /\ [][Next]_vars

\* One translation unit holds its guard and creates objects by key.
NextCreate ==
  \/ Construct(1)
  \/ Destroy(1)
  \/ \E r \in Registries : \E key \in KeysFor(r) : Create(r, key)

SpecCreate == Init /\ [][NextCreate]_vars

\* A guard instance is constructed while some built-in registrations fail; the
\* platform hook registers all of its factories or none.
ConstructFailing(g) ==
  /\ guards[g] = "unborn"
  /\ \E hp \in {{}, HookRegs}, f \in SUBSET FailRegs :
       Commit(factory_initializer_ctor(Cur, hp \cup f))
  /\ guards' = [guards EXCEPT ![g] = "live"]
  /\ lastGuardOp' = [kind |-> "ctor", before |-> init_guard]
  /\ UNCHANGED <<emptied, policy, heap, last_call, seen, pc, tmp>>

\* Guard instances come and go while registrations may fail.
NextFail ==
  \/ \E g \in Guards : ConstructFailing(g)
  \/ \E g \in Guards : Destroy(g)

SpecFail == Init /\ [][NextFail]_vars

\* ------------------------------------------------------------------ threads
\* Thread t constructs and later destroys guard instance t, one statement at a
\* time, while the other threads do the same. The registries in the order of the statements that construct and
\* destroy them.
RegOrder ==
  <<"data_transport_factory", "model_factory", "sender_factory", "trace_logger_factory">>

Idle == [at |-> "idle", i |-> 0]

\* Interleaved statements belong to no single guard operation: the threads keep
\* no record of the latest operation's events.
NoTrace(s) == [s EXCEPT !.log = <<>>, !.initOrder = <<>>, !.teardownOrder = <<>>]

\* init_guard++ == 0, the read.
T_CtorRead(t) ==
  /\ pc[t] = Idle
  /\ guards[t] = "unborn"
  /\ tmp' = [tmp EXCEPT ![t] = init_guard]
  /\ pc' = [pc EXCEPT ![t] = [at |-> "ctor_write", i |-> 0]]
  /\ guards' = [guards EXCEPT ![t] = "constructing"]
  /\ UNCHANGED <<init_guard, constructed, creators, log, initRuns, teardownRuns, hookCalls,
                 hookSaw, initOrder, teardownOrder, env, dupHits, regErrors, reported, lastGuardOp, upCross, downCross,
                 emptied, policy, heap, last_call, seen>>

\* init_guard++ == 0, the write and the test.
T_CtorWrite(t) ==
  /\ pc[t].at = "ctor_write"
  /\ Commit(NoTrace([Cur EXCEPT !.init_guard = tmp[t] + 1]))
  /\ lastGuardOp' = [kind |-> "ctor", before |-> tmp[t]]
  /\ pc' = [pc EXCEPT ![t] = IF tmp[t] = 0 THEN [at |-> "new", i |-> 1] ELSE Idle]
  /\ guards' = IF tmp[t] = 0 THEN guards ELSE [guards EXCEPT ![t] = "live"]
  /\ UNCHANGED <<emptied, policy, heap, last_call, seen, tmp>>

\* One of the four placement-new statements.
T_New(t) ==
  /\ pc[t].at = "new"
  /\ Commit(NoTrace(NewRegistry(Cur, RegOrder[pc[t].i])))
  /\ pc' = [pc EXCEPT ![t] = IF pc[t].i < 4 THEN [at |-> "new", i |-> pc[t].i + 1]
                                            ELSE [at |-> "register", i |-> 0]]
  /\ UNCHANGED <<guards, lastGuardOp, emptied, policy, heap, last_call, seen, tmp>>

\* register_default_factories(); the constructor returns.
T_Register(t) ==
  /\ pc[t].at = "register"
  /\ \E h \in SUBSET HookRegs :
       Commit(NoTrace([register_default_factories(Cur, h) EXCEPT !.initRuns = @ + 1]))
  /\ pc' = [pc EXCEPT ![t] = Idle]
  /\ guards' = [guards EXCEPT ![t] = "live"]
  /\ UNCHANGED <<lastGuardOp, emptied, policy, heap, last_call, seen, tmp>>

\* --init_guard == 0, the read.
T_DtorRead(t) ==
  /\ pc[t] = Idle
  /\ guards[t] = "live"
  /\ tmp' = [tmp EXCEPT ![t] = init_guard]
  /\ pc' = [pc EXCEPT ![t] = [at |-> "dtor_write", i |-> 0]]
  /\ guards' = [guards EXCEPT ![t] = "destroying"]
  /\ emptied' = IF Live = {t} THEN emptied + 1 ELSE emptied
  /\ UNCHANGED <<init_guard, constructed, creators, log, initRuns, teardownRuns, hookCalls,
                 hookSaw, initOrder, teardownOrder, env, dupHits, regErrors, reported, lastGuardOp, upCross, downCross,
                 policy, heap, last_call, seen>>

\* --init_guard == 0, the write and the test.
T_DtorWrite(t) ==
  /\ pc[t].at = "dtor_write"
  /\ Commit(NoTrace([Cur EXCEPT !.init_guard = tmp[t] - 1]))
  /\ lastGuardOp' = [kind |-> "dtor", before |-> tmp[t]]
  /\ pc' = [pc EXCEPT ![t] = IF tmp[t] - 1 = 0 THEN [at |-> "delete", i |-> 1] ELSE Idle]
  /\ guards' = IF tmp[t] - 1 = 0 THEN guards ELSE [guards EXCEPT ![t] = "dead"]
  /\ UNCHANGED <<emptied, policy, heap, last_call, seen, tmp>>

\* One of the four destructor calls; after the last the destructor returns.
T_Delete(t) ==
  /\ pc[t].at = "delete"
  /\ LET s == DeleteRegistry(Cur, RegOrder[pc[t].i])
     IN Commit(NoTrace(IF pc[t].i = 4 THEN [s EXCEPT !.teardownRuns = @ + 1] ELSE s))
  /\ pc' = [pc EXCEPT ![t] = IF pc[t].i < 4 THEN [at |-> "delete", i |-> pc[t].i + 1]
                                            ELSE Idle]
  /\ guards' = IF pc[t].i = 4 THEN [guards EXCEPT ![t] = "dead"] ELSE guards
  /\ UNCHANGED <<lastGuardOp, emptied, policy, heap, last_call, seen, tmp>>

\* A thread that is in no constructor or destructor looks at the registries.
T_Observe(t) ==
  /\ pc[t] = Idle
  /\ seen' = constructed
  /\ UNCHANGED <<init_guard, constructed, creators, log, initRuns, teardownRuns, hookCalls,
                 hookSaw, initOrder, teardownOrder, env, dupHits, regErrors, reported, guards, lastGuardOp, upCross,
                 downCross, emptied, policy, heap, last_call, pc, tmp>>

NextThreads ==
  \/ \E t \in Threads : T_CtorRead(t)
  \/ \E t \in Threads : T_CtorWrite(t)
  \/ \E t \in Threads : T_New(t)
  \/ \E t \in Threads : T_Register(t)
  \/ \E t \in Threads : T_DtorRead(t)
  \/ \E t \in Threads : T_DtorWrite(t)
  \/ \E t \in Threads : T_Delete(t)
  \/ \E t \in Threads : T_Observe(t)

SpecThreads == Init /\ [][NextThreads]_vars

\* ------------------------------------------------------------------ claims
Uninitialized == \A r \in Registries : ~constructed[r] /\ creators[r] = {}
Initialized == \A r \in Registries : constructed[r]
AllOrNone(f) == (\A r \in Registries : f[r]) \/ (\A r \in Registries : ~f[r])
AllDestroyed == Live = {} /\ \E g \in Guards : guards[g] = "dead"

InitLog ==
  << <<"new", "data_transport_factory">>, <<"new", "model_factory">>,
     <<"new", "sender_factory">>, <<"new", "trace_logger_factory">>,
     <<"call", "register_default_factories">>, <<"call", "register_azure_factories">> >>

Reverse(q) == [i \in 1..Len(q) |-> q[Len(q) + 1 - i]]

\* C1 as stated: whenever every constructed guard has been destroyed, the
\* registries were initialised exactly once and torn down exactly once, and are
\* uninitialised.
C1_ExactlyOnce ==
  AllDestroyed => initRuns = 1 /\ teardownRuns = 1 /\ Uninitialized

\* C1 amended: whenever every constructed guard has been destroyed, the registries
\* were initialised and torn down once for each time the set of live guards
\* became empty, and are uninitialised.
C1_OncePerEmptying ==
  AllDestroyed => initRuns = emptied /\ teardownRuns = emptied /\ Uninitialized

C1_Witness ==
  AllDestroyed /\ emptied = 2 /\ initRuns = 2 /\ \A g \in Guards : guards[g] = "dead"

\* C2: a construction adds exactly 1 to init_guard; it constructs the four
\* registries and then runs register_default_factories exactly when init_guard was
\* 0 before, and the defaults are registered with all four registries constructed.
C2_CtorIncrementsAndInitializesFromZero ==
  lastGuardOp.kind = "ctor" =>
    /\ init_guard = lastGuardOp.before + 1
    /\ (lastGuardOp.before = 0 <=> log = InitLog)
    /\ (lastGuardOp.before # 0 => log = <<>>)
    /\ (lastGuardOp.before = 0 => Initialized /\ \A r \in Registries : hookSaw[r])

C2_Witness ==
  lastGuardOp.kind = "ctor" /\ lastGuardOp.before = 0 /\ log = InitLog /\ initRuns = 2

\* C3: a destruction subtracts exactly 1 from init_guard; it destroys the four
\* registries, releasing every registered factory, exactly when init_guard goes
\* from 1 to 0, and destroys none when init_guard stays above 0.
C3_DtorDecrementsAndTearsDownAtZero ==
  lastGuardOp.kind = "dtor" =>
    /\ init_guard = lastGuardOp.before - 1
    /\ (lastGuardOp.before = 1 <=>
          /\ Len(log) = 4
          /\ { log[i] : i \in 1..Len(log) } = { <<"delete", r>> : r \in Registries })
    /\ (lastGuardOp.before = 1 => Uninitialized)
    /\ (init_guard > 0 => log = <<>> /\ Initialized)

C3_Witness ==
  lastGuardOp.kind = "dtor" /\ lastGuardOp.before = 1 /\ Len(log) = 4 /\ Uninitialized

\* C4 as stated: the last destruction destroys the registries in the reverse of
\* the order in which they were constructed.
C4_TeardownReversesInit ==
  (lastGuardOp.kind = "dtor" /\ init_guard = 0) => teardownOrder = Reverse(initOrder)

\* C4 amended: the last destruction destroys the registries in the same order in
\* which they were constructed: data transport, model, sender, trace logger.
C4_TeardownFollowsInit ==
  (lastGuardOp.kind = "dtor" /\ init_guard = 0) =>
    /\ teardownOrder = initOrder
    /\ teardownOrder =
         <<"data_transport_factory", "model_factory", "sender_factory", "trace_logger_factory">>

C4_Witness ==
  lastGuardOp.kind = "dtor" /\ init_guard = 0 /\ Len(teardownOrder) = 4 /\ Len(initOrder) = 4

\* C5: initialisation has run once per 0 -> 1 crossing of init_guard and teardown
\* once per 1 -> 0 crossing.
C5_RunsPerCrossing ==
  initRuns = upCross /\ teardownRuns = downCross /\ hookCalls = upCross

C5_Witness ==
  upCross = 2 /\ downCross = 2 /\ initRuns = 2 /\ teardownRuns = 2

\* C6: whatever code outside the guard's constructor and destructor finds, be it
\* the platform hook or any thread, is four registries all constructed or all
\* unconstructed.
C6_NoPartialInitObserved ==
  AllOrNone(seen) /\ (hookCalls > 0 => AllOrNone(hookSaw))

\* C7: a construction that finds init_guard >= 1, and a destruction that leaves
\* init_guard >= 1, change neither the registries nor their contents, construct
\* and destroy nothing and do not invoke the platform hook.
C7_LaterGuardsOnlyCount ==
  [][ ( \/ (init_guard >= 1 /\ init_guard' = init_guard + 1)
        \/ (init_guard' >= 1 /\ init_guard' = init_guard - 1) )
      => /\ UNCHANGED <<constructed, creators, hookCalls, hookSaw, initRuns, teardownRuns>>
         /\ log' = <<>> ]_vars

C7_Witness ==
  /\ lastGuardOp.kind = "ctor" /\ lastGuardOp.before >= 1
  /\ creators["sender_factory"] # {} /\ Initialized

\* C8: once initialised, the model registry holds the VW key, the trace logger
\* registry the null and console keys, the sender registry the observation and
\* interaction file keys, each bound to its built-in factory; the data transport
\* registry holds nothing but what the platform hook registered.
C8_DefaultsRegistered ==
  init_guard > 0 =>
    /\ <<VW, "vw_model_create">> \in creators["model_factory"]
    /\ <<NULL_TRACE_LOGGER, "null_tracer_create">> \in creators["trace_logger_factory"]
    /\ <<CONSOLE_TRACE_LOGGER, "console_tracer_create">> \in creators["trace_logger_factory"]
    /\ <<OBSERVATION_FILE_SENDER, "observation_file_sender">> \in creators["sender_factory"]
    /\ <<INTERACTION_FILE_SENDER, "interaction_file_sender">> \in creators["sender_factory"]
    /\ creators["data_transport_factory"] \subseteq
         { <<e[2], e[3]>> : e \in { x \in HookRegs : x[1] = "data_transport_factory" } }

C8_Witness ==
  init_guard > 0 /\ initRuns = 2 /\ creators["data_transport_factory"] # {}

\* C9 as stated: a create call that a built-in factory answers with success leaves
\* a newly created object in the output slot and does not set the status.
C9_SuccessYieldsObject ==
  (last_call.fn \in BuiltinFns /\ last_call.rc = success) =>
    /\ last_call.retval.kind = "object"
    /\ last_call.retval.id = last_call.heap_before + 1
    /\ heap = last_call.heap_before + 1
    /\ last_call.status = last_call.status_in

\* C9 amended: a create call that a built-in factory answers with success does not
\* set the status, and leaves a newly created object in the output slot unless
\* the factory is the null tracer's, which leaves a null logger there.
C9_SuccessYieldsObjectExceptNullTracer ==
  (last_call.fn \in BuiltinFns /\ last_call.rc = success) =>
    /\ last_call.status = last_call.status_in
    /\ IF last_call.fn = "null_tracer_create"
       THEN last_call.retval = NullPtr
       ELSE /\ last_call.retval.kind = "object"
            /\ last_call.retval.id = last_call.heap_before + 1
            /\ heap = last_call.heap_before + 1

C9_Witness ==
  /\ last_call.fn = "vw_model_create" /\ last_call.rc = success
  /\ last_call.retval.kind = "object" /\ last_call.heap_before = 1
  /\ last_call.status_in = "unset"

\* C10: a create call for the null tracer key returns success, sets the output
\* slot to a null logger, allocates no object and sets no status, whatever the
\* configuration.
C10_NullTracerNeverFails ==
  (last_call.registry = "trace_logger_factory" /\ last_call.key = NULL_TRACE_LOGGER) =>
    /\ last_call.rc = success
    /\ last_call.retval = NullPtr
    /\ heap = last_call.heap_before
    /\ last_call.status = last_call.status_in

C10_Witness ==
  /\ last_call.registry = "trace_logger_factory" /\ last_call.key = NULL_TRACE_LOGGER
  /\ last_call.cfg[OBSERVATION_FILE_NAME] # NoValue /\ last_call.trace_logger = "tracer"
  /\ last_call.rc = success /\ last_call.retval = NullPtr

\* C11: a sender created through the observation file key is bound to the file
\* name the configuration gives for the observation file name option, and to
\* "observation.fb.data" when the configuration omits it; likewise the interaction
\* file key with its own option and "interaction.fb.data".
C11_FileNameDefaultAndOverride ==
  /\ (last_call.registry = "sender_factory" /\ last_call.key = OBSERVATION_FILE_SENDER) =>
       /\ last_call.rc = success /\ last_call.retval.type = "file_logger"
       /\ last_call.retval.file_name =
            IF last_call.cfg[OBSERVATION_FILE_NAME] = NoValue
            THEN "observation.fb.data" ELSE last_call.cfg[OBSERVATION_FILE_NAME]
  /\ (last_call.registry = "sender_factory" /\ last_call.key = INTERACTION_FILE_SENDER) =>
       /\ last_call.rc = success /\ last_call.retval.type = "file_logger"
       /\ last_call.retval.file_name =
            IF last_call.cfg[INTERACTION_FILE_NAME] = NoValue
            THEN "interaction.fb.data" ELSE last_call.cfg[INTERACTION_FILE_NAME]

C11_Witness ==
  /\ last_call.registry = "sender_factory" /\ last_call.key = INTERACTION_FILE_SENDER
  /\ last_call.cfg[INTERACTION_FILE_NAME] = NoValue
  /\ last_call.cfg[OBSERVATION_FILE_NAME] = "custom.data"
  /\ last_call.retval.file_name = "interaction.fb.data"

\* C12: a sender created by either file sender factory is bound to the error
\* callback that was passed to the create call.
C12_CallbackReachesSender ==
  (last_call.fn \in {"observation_file_sender", "interaction_file_sender"}
     /\ last_call.rc = success)
  => last_call.retval.error_cb = last_call.error_cb

\* C13: every built-in registration that fails is passed on to a status or error
\* channel by the guard's code.
C13_FailuresSurfaced ==
  reported = regErrors

\* C14: a construction that initialises completes, whichever built-in
\* registrations fail: init_guard is 1, the four registries are constructed, the
\* guard is live, and every built-in registration that does not fail is in place.
C14_ConstructionCompletesDespiteFailures ==
  (lastGuardOp.kind = "ctor" /\ lastGuardOp.before = 0) =>
    /\ init_guard = 1
    /\ Cardinality(Live) = 1
    /\ Initialized
    /\ initRuns = upCross
    /\ \A e \in DefaultRegs :
         <<"fails", e[1], e[2]>> \notin env => <<e[2], e[3]>> \in creators[e[1]]

C14_Witness ==
  /\ lastGuardOp.kind = "ctor" /\ lastGuardOp.before = 0
  /\ <<"fails", "model_factory", VW>> \in env
  /\ <<"fails", "sender_factory", OBSERVATION_FILE_SENDER>> \in env
  /\ <<"fails", "sender_factory", INTERACTION_FILE_SENDER>> \notin env
  /\ Initialized /\ regErrors >= 2
  /\ <<INTERACTION_FILE_SENDER, "interaction_file_sender">> \in creators["sender_factory"]

HookAt(q) == { i \in 1..Len(q) : q[i] = <<"call", "register_azure_factories">> }

\* C15: the platform hook is invoked once per initialisation, after all four
\* registries are constructed, and its registrations are in place when the
\* initialising constructor returns; a construction that finds init_guard above 0
\* does not invoke it.
C15_HookOncePerInitAfterConstruction ==
  /\ hookCalls = initRuns
  /\ lastGuardOp.kind = "ctor" =>
       /\ Cardinality(HookAt(log)) = IF lastGuardOp.before = 0 THEN 1 ELSE 0
       /\ \A i \in HookAt(log) : \A r \in Registries :
            \E j \in 1..(i - 1) : log[j] = <<"new", r>>
       /\ lastGuardOp.before = 0 =>
            /\ \A r \in Registries : hookSaw[r]
            /\ \A e \in env \cap HookRegs : <<e[2], e[3]>> \in creators[e[1]]

C15_Witness ==
  /\ lastGuardOp.kind = "ctor" /\ lastGuardOp.before = 0 /\ hookCalls = 2
  /\ env = HookRegs /\ Cardinality(HookAt(log)) = 1

Populated == \A e \in DefaultRegs : <<e[2], e[3]>> \in creators[e[1]]

\* C16: once a guard's constructor has returned, and before any guard is
\* destroyed, the four registries are constructed and hold every default
\* registration, also when constructors run concurrently.
C16_ReturnedCtorSeesPopulated ==
  ( /\ \E t \in Threads : guards[t] = "live"
    /\ \A t \in Threads : guards[t] \notin {"destroying", "dead"} )
  => Initialized /\ Populated

\* C17: with init_guard++ and --init_guard executed as a read followed by a write
\* by concurrent threads, no update is lost (with every thread outside the
\* constructor and destructor, init_guard is the number of live guards) and the
\* registries are never initialised twice without a teardown in between, nor torn
\* down twice without an initialisation in between.
C17_NoLostUpdateNoDoubleInit ==
  /\ (\A t \in Threads : pc[t] = Idle) => init_guard = Cardinality(Live)
  /\ initRuns - teardownRuns \in {0, 1}

\* C18: between sequential guard operations init_guard is the number of live
\* guard instances, so never negative, and the four registries are constructed
\* exactly when init_guard is above 0.
C18_CounterIsLiveCount ==
  /\ init_guard = Cardinality(Live)
  /\ init_guard >= 0
  /\ init_guard > 0 <=> Initialized
  /\ init_guard = 0 <=> \A r \in Registries : ~constructed[r]

C18_Witness ==
  /\ init_guard = 2 /\ Cardinality(Live) = 2 /\ \E g \in Guards : guards[g] = "dead"
  /\ Initialized

====
